---- MODULE Spec2Model ----
(***************************************************************************)
(* Model of Geometry3D/geometry/polyhedron.py: ConvexPolyhedron            *)
(* (constructor, Parallelepiped factory, move, __contains__, __eq__,       *)
(* volume).                                                                *)
(*                                                                         *)
(* Coordinates are integers, so every sum, product and comparison of the   *)
(* code is exact.  A Point whose coordinates are quotients (the vertex     *)
(* average) is kept as the fraction [s |-> <<sx,sy,sz>>, n |-> N], meaning *)
(* Point(sx/N, sy/N, sz/N).  A Vector is a triple.  A ConvexPolygen is the *)
(* sequence of its vertices in winding order; a Segment is the set of its  *)
(* two end points.                                                         *)
(***************************************************************************)
EXTENDS Integers, Sequences, FiniteSets, TLC

\* ------------------------------------------------------------- bounds
\* Largest number of move() calls in the history of one object.
MaxMoves == 2
\* Largest set size offered to the closure-failure report (SpecEuler).
MaxCount == 4

\* The handles the caller holds; 0 stands for a returned value it drops.
Slots == {1, 2}
Dropped == 0

\* ------------------------------------------------------------ vectors
VAdd(a, b) == <<a[1] + b[1], a[2] + b[2], a[3] + b[3]>>
VSub(a, b) == <<a[1] - b[1], a[2] - b[2], a[3] - b[3]>>
VNeg(a) == <<-a[1], -a[2], -a[3]>>
VScale(k, a) == <<k * a[1], k * a[2], k * a[3]>>
Dot(a, b) == a[1] * b[1] + a[2] * b[2] + a[3] * b[3]
Cross(a, b) == <<a[2] * b[3] - a[3] * b[2],
                 a[3] * b[1] - a[1] * b[3],
                 a[1] * b[2] - a[2] * b[1]>>
ZeroVec == <<0, 0, 0>>
Abs(x) == IF x < 0 THEN -x ELSE x

\* Vector.length() == 0, decided on the squared length.
LengthIsZero(v) == Dot(v, v) = 0
\* Vector.parallel: the cross product vanishes (so the zero vector is
\* parallel to every vector).
Parallel(a, b) == Cross(a, b) = ZeroVec

\* get_eps() is 1/EpsInv.  Every quantity compared against it is a fraction
\* num/den with den > 0.
EpsInv == 100000
LtNegEps(num, den) == num * EpsInv < -den
GtEps(num, den) == num * EpsInv > den

RECURSIVE SumSeq(_)
SumSeq(s) == IF s = <<>> THEN ZeroVec ELSE VAdd(Head(s), SumSeq(Tail(s)))

RECURSIVE SumSet(_)
SumSet(S) ==
    IF S = {} THEN ZeroVec
    ELSE LET x == CHOOSE y \in S : TRUE IN VAdd(x, SumSet(S \ {x}))

RECURSIVE SumInts(_)
SumInts(s) == IF s = <<>> THEN 0 ELSE Head(s) + SumInts(Tail(s))

Range(s) == {s[i] : i \in DOMAIN s}
Reverse(s) == [i \in 1..Len(s) |-> s[Len(s) + 1 - i]]

\* ----------------------------------------------------- ConvexPolygen
\* polygen.points, polygen.plane.p, polygen.plane.n, polygen.center_point,
\* polygen.segments(), -polygen, polygen.move(v), Parallelogram(p, v1, v2).
PlaneP(f) == f[1]
PlaneN(f) == Cross(VSub(f[2], f[1]), VSub(f[3], f[1]))
PolygenCenter(f) == [s |-> SumSeq(f), n |-> Len(f)]
Segments(f) == {{f[i], f[(i % Len(f)) + 1]} : i \in 1..Len(f)}
NegPolygen(f) == Reverse(f)
MovePoint(p, v) == VAdd(p, v)
MovePolygen(f, v) == [i \in 1..Len(f) |-> MovePoint(f[i], v)]
Parallelogram(p, v1, v2) == <<p, VAdd(p, v1), VAdd(VAdd(p, v1), v2), VAdd(p, v2)>>
\* Twice the area vector of the polygon (fan from the first vertex): it is
\* parallel to the normal and its length is twice the area.
AreaVec2(f) ==
    SumSeq([i \in 1..(Len(f) - 2) |-> Cross(VSub(f[i + 1], f[1]), VSub(f[i + 2], f[1]))])

\* Pyramid(base, apex, direct_call=False)
Pyramid(f, c) == [convex_polygen |-> f, point |-> c]
\* pyramid.volume() = height * area / 3 with the height the distance of the
\* apex from the base plane; the value returned here is 6 * c.n times it.
PyramidVolume6N(py) ==
    Abs(Dot(VSub(VScale(py.point.n, py.convex_polygen[1]), py.point.s),
            AreaVec2(py.convex_polygen)))

\* --------------------------------------------------- ConvexPolyhedron
NoCenter == [s |-> ZeroVec, n |-> 0]
NoPoly ==
    [alive |-> FALSE, convex_polygens |-> <<>>, point_set |-> {},
     segment_set |-> {}, pyramid_set |-> {}, center_point |-> NoCenter]
NoDetail == [V |-> -1, E |-> -1, F |-> -1]

\* The two loops that fill point_set and segment_set.
PointSetOf(faces) == UNION {Range(faces[i]) : i \in DOMAIN faces}
SegmentSetOf(faces) == UNION {Segments(faces[i]) : i \in DOMAIN faces}

\* _get_center_point: Point(x / num_points, y / num_points, z / num_points);
\* the caller meets ZeroDivisionError when the set is empty.
GetCenterPoint(point_set) == [s |-> SumSet(point_set), n |-> Cardinality(point_set)]

\* Vector(center_point, polygen.plane.p) * polygen.plane.n, times c.n.
CenterDotN(c, f) == Dot(VSub(VScale(c.n, PlaneP(f)), c.s), PlaneN(f))

NormalInwardSignSlip(c, f) == GtEps(CenterDotN(c, f), c.n)
\* The test "... < -get_eps()" of the correction loop and of _check_normal.
NormalInward(c, f) == LtNegEps(CenterDotN(c, f), c.n)

\* The correction loop: convex_polygens[i] is replaced by its negation when
\* its normal points inward ...
CorrectedFaces(faces, c) ==
    [i \in DOMAIN faces |-> IF NormalInward(c, faces[i]) THEN NegPolygen(faces[i])
                                                      ELSE faces[i]]
\* ... while the pyramid is built on the local variable convex_polygen, the
\* face read before the replacement.
PyramidSetOf(faces, c) == {Pyramid(faces[i], c) : i \in DOMAIN faces}

CheckNormal(p) ==
    \A i \in DOMAIN p.convex_polygens : ~NormalInward(p.center_point, p.convex_polygens[i])

EulerCheckSkipped(p) == TRUE
EulerCheck(p) ==
    Cardinality(p.point_set) - Cardinality(p.segment_set) + Len(p.convex_polygens) = 2

\* The critical log line of __init__: 'V:{} E:{} F:{}'.format(points, segments, polygens)
InitFailureDetail(np, ns, nf) == [V |-> np, E |-> ns, F |-> nf]
\* The critical log line of move: 'V:{} F:{} E:{}'.format(points, segments, polygens)
MoveFailureDetail(np, ns, nf) == [V |-> np, F |-> ns, E |-> nf]

\* ConvexPolyhedron.__init__(convex_polygens)
Construct(faces) ==
    LET ps == PointSetOf(faces)
        ss == SegmentSetOf(faces)
    IN  IF ps = {}
        THEN [err |-> "ZeroDivisionError", poly |-> NoPoly, detail |-> NoDetail]
        ELSE LET c == GetCenterPoint(ps)
                 p == [alive |-> TRUE,
                       convex_polygens |-> CorrectedFaces(faces, c),
                       point_set |-> ps,
                       segment_set |-> ss,
                       pyramid_set |-> PyramidSetOf(faces, c),
                       center_point |-> c]
             IN  IF ~CheckNormal(p)
                 THEN [err |-> "normal", poly |-> NoPoly, detail |-> NoDetail]
                 ELSE IF ~EulerCheck(p)
                 THEN [err |-> "euler", poly |-> NoPoly,
                       detail |-> InitFailureDetail(Cardinality(ps), Cardinality(ss),
                                                    Len(faces))]
                 ELSE [err |-> "none", poly |-> p, detail |-> NoDetail]

\* The zero-length test of the factory: v1.length() is called, v2.length and
\* v3.length are bound methods, which never equal 0.
BoundMethodIsZero(v) == FALSE
ZeroLengthTest(v1, v2, v3) ==
    LengthIsZero(v1) \/ BoundMethodIsZero(v2) \/ BoundMethodIsZero(v3)

ParallelepipedFaces(base_point, v1, v2, v3) ==
    LET p_diag == MovePoint(MovePoint(MovePoint(base_point, v1), v2), v3)
    IN  <<Parallelogram(base_point, v1, v2),
          Parallelogram(base_point, v2, v3),
          Parallelogram(base_point, v1, v3),
          Parallelogram(p_diag, VNeg(v1), VNeg(v2)),
          Parallelogram(p_diag, VNeg(v2), VNeg(v3)),
          Parallelogram(p_diag, VNeg(v1), VNeg(v3))>>

\* ConvexPolyhedron.Parallelepiped(base_point, v1, v2, v3); faces is what the
\* call built before it ended.
Parallelepiped(base_point, v1, v2, v3) ==
    IF ZeroLengthTest(v1, v2, v3)
    THEN [err |-> "zero_length", poly |-> NoPoly, detail |-> NoDetail, faces |-> <<>>]
    ELSE IF Parallel(v1, v2) \/ Parallel(v1, v3) \/ Parallel(v2, v3)
    THEN [err |-> "parallel", poly |-> NoPoly, detail |-> NoDetail, faces |-> <<>>]
    ELSE LET fs == ParallelepipedFaces(base_point, v1, v2, v3)
             r == Construct(fs)
         IN  [err |-> r.err, poly |-> r.poly, detail |-> r.detail, faces |-> fs]

MovedFacesPrepended(self, v) ==
    [i \in DOMAIN self.convex_polygens |->
        MovePolygen(self.convex_polygens[Len(self.convex_polygens) + 1 - i], v)]
\* move: convexpolygen_list, every face moved, in order.
MovedFaces(self, v) ==
    [i \in DOMAIN self.convex_polygens |-> MovePolygen(self.convex_polygens[i], v)]

MovedSelfUntouched(self, v) ==
    [err |-> "none", self |-> self, detail |-> NoDetail]
\* move, up to its two checks: what it leaves in self, and how it ends there.
\* convex_polygens is a tuple by now, so the replacement of an inward face
\* raises TypeError with the pyramids of the faces before it already added.
MovedSelf(self, v) ==
    LET moved == MovedFaces(self, v)
        ps == PointSetOf(moved)
        ss == SegmentSetOf(moved)
        s0 == [alive |-> TRUE, convex_polygens |-> moved, point_set |-> ps,
               segment_set |-> ss, pyramid_set |-> {},
               center_point |-> self.center_point]
    IN  IF ps = {}
        THEN [err |-> "ZeroDivisionError", self |-> s0, detail |-> NoDetail]
        ELSE LET c == GetCenterPoint(ps)
                 inward == {i \in DOMAIN moved : NormalInward(c, moved[i])}
                 upto == IF inward = {} THEN Len(moved)
                         ELSE (CHOOSE i \in inward : \A j \in inward : i <= j) - 1
                 s1 == [s0 EXCEPT !.center_point = c,
                                  !.pyramid_set = {Pyramid(moved[i], c) : i \in 1..upto}]
             IN  IF inward # {}
                 THEN [err |-> "TypeError", self |-> s1, detail |-> NoDetail]
                 ELSE IF ~CheckNormal(s1)
                 THEN [err |-> "normal", self |-> s1, detail |-> NoDetail]
                 ELSE IF ~EulerCheck(s1)
                 THEN [err |-> "euler", self |-> s1,
                       detail |-> MoveFailureDetail(Cardinality(ps), Cardinality(ss),
                                                    Len(moved))]
                 ELSE [err |-> "none", self |-> s1, detail |-> NoDetail]

\* ConvexPolyhedron.move(v): self after the call, and the polyhedron returned.
Move(self, v) ==
    LET m == MovedSelf(self, v)
    IN  IF m.err # "none"
        THEN [err |-> m.err, self |-> m.self, ret |-> NoPoly, detail |-> m.detail]
        ELSE LET r == Construct(m.self.convex_polygens)
             IN  [err |-> r.err, self |-> m.self, ret |-> r.poly, detail |-> r.detail]

\* Vector(polygen.center_point, other) * polygen.plane.n as the fraction
\* num/den, for a Point other = q.s / q.n.
FaceDotNum(f, q) ==
    Dot(VSub(VScale(Len(f), q.s), VScale(q.n, PolygenCenter(f).s)), PlaneN(f))
FaceDotDen(f, q) == Len(f) * q.n

ContainsStrictly(self, q) ==
    \A i \in DOMAIN self.convex_polygens : FaceDotNum(self.convex_polygens[i], q) < 0
\* __contains__ for a Point: False at the first face with dot > get_eps().
Contains(self, q) ==
    \A i \in DOMAIN self.convex_polygens :
        ~GtEps(FaceDotNum(self.convex_polygens[i], q), FaceDotDen(self.convex_polygens[i], q))

\* Point.__hash__ and ConvexPolygen.__hash__ (value hashes of the
\* coordinates), and the two sums of __hash__.
PointHash(p) == p[1] + 31 * p[2] + 961 * p[3]
PolygenHash(f) == 7 * SumInts([i \in 1..Len(f) |-> PointHash(f[i])]) + Len(f)
RECURSIVE SumPointHash(_)
SumPointHash(S) ==
    IF S = {} THEN 0
    ELSE LET x == CHOOSE y \in S : TRUE IN PointHash(x) + SumPointHash(S \ {x})
GetPolygenHashSum(self) ==
    SumInts([i \in DOMAIN self.convex_polygens |-> PolygenHash(self.convex_polygens[i])])
GetPointHashSum(self) == SumPointHash(self.point_set)
PolyHash(self) == <<"ConvexPolyhedron", GetPolygenHashSum(self), GetPointHashSum(self)>>
\* __eq__
PolyEq(a, b) == PolyHash(a) = PolyHash(b)

RECURSIVE SumVolumes(_)
SumVolumes(S) ==
    IF S = {} THEN 0
    ELSE LET x == CHOOSE y \in S : TRUE IN PyramidVolume6N(x) + SumVolumes(S \ {x})
\* volume(), times 6 * |point_set|
Volume6N(self) == SumVolumes(self.pyramid_set)

\* ------------------------------------------------------------- inputs
\* The faces of the tetrahedron (0,0,0) (1,0,0) (0,1,0) (0,0,1), each wound
\* so that its normal points outward.
BaseFaces ==
    << <<(<<0, 0, 0>>), (<<0, 1, 0>>), (<<1, 0, 0>>)>>,
       <<(<<0, 0, 0>>), (<<1, 0, 0>>), (<<0, 0, 1>>)>>,
       <<(<<0, 0, 0>>), (<<0, 0, 1>>), (<<0, 1, 0>>)>>,
       <<(<<1, 0, 0>>), (<<0, 1, 0>>), (<<0, 0, 1>>)>> >>

RECURSIVE PickFrom(_, _, _)
PickFrom(i, mask, rev) ==
    IF i > Len(BaseFaces) THEN <<>>
    ELSE (IF i \in mask
          THEN <<IF i \in rev THEN NegPolygen(BaseFaces[i]) ELSE BaseFaces[i]>>
          ELSE <<>>) \o PickFrom(i + 1, mask, rev)
\* A face collection handed to the constructor: the base faces in mask, those
\* in rev wound the other way, the first one given twice when dup.
PickFaces(mask, rev, dup) ==
    LET fs == PickFrom(1, mask, rev)
    IN  IF dup /\ fs # <<>> THEN Append(fs, fs[1]) ELSE fs

FaceInputs ==
    {PickFaces(mask, rev, dup) :
        mask \in SUBSET (DOMAIN BaseFaces), rev \in {{}, {1, 3}}, dup \in BOOLEAN}

\* Arguments of the factory.
BasePoints == {<<0, 0, 0>>}
V1Inputs == {ZeroVec, <<1, 0, 0>>}
V2Inputs == {ZeroVec, <<0, 1, 0>>, <<1, 0, 0>>}
V3Inputs == {ZeroVec, <<0, 0, 1>>, <<2, 1, 0>>, <<0, 1, 0>>}

\* Arguments of move: a vector and its double.
MoveInputs == {<<1, 2, -1>>, <<2, 4, -2>>}

\* Points asked of __contains__: a vertex, an outside point, an interior
\* point (1/4, 1/4, 1/4) and a boundary point (1/2, 1/2, 0).
QueryPoints ==
    {[s |-> <<0, 0, 0>>, n |-> 1], [s |-> <<1, 1, 1>>, n |-> 1],
     [s |-> <<1, 1, 1>>, n |-> 4], [s |-> <<1, 1, 0>>, n |-> 2]}

\* -------------------------------------------------------------- state
\* objs: the polyhedron each handle holds.  hist: for each, the faces it was
\* first built from, the sum of the vectors it was moved by since, and how
\* many moves that was.  last: the last call and how it ended.
VARIABLES objs, hist, last
vars == <<objs, hist, last>>

NoHist == [origin |-> <<>>, disp |-> ZeroVec, hops |-> 0]
NoLast ==
    [op |-> "none", err |-> "none", slot |-> 0, dst |-> 0, v |-> ZeroVec,
     args |-> <<>>, built |-> 0, q |-> NoCenter, result |-> FALSE,
     counts |-> <<>>, detail |-> NoDetail]

Init ==
    /\ objs = [o \in Slots |-> NoPoly]
    /\ hist = [o \in Slots |-> NoHist]
    /\ last = NoLast

ConstructTable == [faces \in FaceInputs |-> Construct(faces)]
ParallelepipedTable ==
    [a \in BasePoints \X V1Inputs \X V2Inputs \X V3Inputs |->
        Parallelepiped(a[1], a[2], a[3], a[4])]

CountsOf(faces) ==
    <<Cardinality(PointSetOf(faces)), Cardinality(SegmentSetOf(faces)), Len(faces)>>

\* o = ConvexPolyhedron(faces); a call that raises binds nothing.
New(o, faces) ==
    \E r \in {ConstructTable[faces]} :
    LET ok == r.err = "none"
    IN  /\ objs' = IF ok THEN [objs EXCEPT ![o] = r.poly] ELSE objs
        /\ hist' = IF ok THEN [hist EXCEPT ![o] = [origin |-> faces, disp |-> ZeroVec,
                                                   hops |-> 0]]
                         ELSE hist
        /\ last' = [NoLast EXCEPT !.op = "new", !.err = r.err,
                                  !.slot = IF ok THEN o ELSE 0,
                                  !.counts = IF r.err = "euler" THEN CountsOf(faces)
                                                                ELSE <<>>,
                                  !.detail = r.detail]

\* o = Parallelepiped(base_point, v1, v2, v3)
NewParallelepiped(o, base_point, v1, v2, v3) ==
    \E r \in {ParallelepipedTable[<<base_point, v1, v2, v3>>]} :
    LET ok == r.err = "none"
    IN  /\ objs' = IF ok THEN [objs EXCEPT ![o] = r.poly] ELSE objs
        /\ hist' = IF ok THEN [hist EXCEPT ![o] = [origin |-> r.faces, disp |-> ZeroVec,
                                                   hops |-> 0]]
                         ELSE hist
        /\ last' = [NoLast EXCEPT !.op = "parallelepiped", !.err = r.err,
                                  !.slot = IF ok THEN o ELSE 0,
                                  !.args = <<v1, v2, v3>>,
                                  !.built = Len(r.faces),
                                  !.counts = IF r.err = "euler" THEN CountsOf(r.faces)
                                                                ELSE <<>>,
                                  !.detail = r.detail]

\* dst = objs[o].move(v): self is rewritten in place and the value returned is
\* bound to dst (dst = o rebinds the handle to the returned polyhedron,
\* dst = Dropped is the call as a statement).
MoveCall(o, dst, v) ==
    /\ objs[o].alive
    /\ hist[o].hops < MaxMoves
    /\ \E r \in {Move(objs[o], v)} :
         LET keep == r.err = "none" /\ dst # Dropped
             h == [origin |-> hist[o].origin, disp |-> VAdd(hist[o].disp, v),
                   hops |-> hist[o].hops + 1]
             objs1 == [objs EXCEPT ![o] = r.self]
             hist1 == [hist EXCEPT ![o] = h]
         IN  /\ objs' = IF keep THEN [objs1 EXCEPT ![dst] = r.ret] ELSE objs1
             /\ hist' = IF keep THEN [hist1 EXCEPT ![dst] = h] ELSE hist1
             /\ last' = [NoLast EXCEPT !.op = "move", !.err = r.err, !.slot = o,
                                       !.dst = dst, !.v = v, !.detail = r.detail]

\* q in objs[o], for a Point q
ContainsCall(o, q) ==
    /\ objs[o].alive
    /\ UNCHANGED <<objs, hist>>
    /\ last' = [NoLast EXCEPT !.op = "contains", !.slot = o, !.q = q,
                              !.result = Contains(objs[o], q)]

\* One handle: built by the constructor or the factory, moved, queried.
Next ==
    \/ \E faces \in FaceInputs : New(1, faces)
    \/ \E b \in BasePoints, v1 \in V1Inputs, v2 \in V2Inputs, v3 \in V3Inputs :
          NewParallelepiped(1, b, v1, v2, v3)
    \/ \E dst \in {1, Dropped}, v \in MoveInputs : MoveCall(1, dst, v)
    \/ \E q \in QueryPoints \cup {objs[1].center_point} : ContainsCall(1, q)

Spec == Init /\ [][Next]_vars

\* Two handles, each holding a polyhedron of its own built from the same
\* faces, then moved.
BuiltTwice(r, faces) ==
    /\ r.err = "none"
    /\ objs = [o \in Slots |-> r.poly]
    /\ hist = [o \in Slots |-> [origin |-> faces, disp |-> ZeroVec, hops |-> 0]]
    /\ last = NoLast

InitPair ==
    \/ \E faces \in FaceInputs : BuiltTwice(ConstructTable[faces], faces)
    \/ \E a \in DOMAIN ParallelepipedTable :
          BuiltTwice(ParallelepipedTable[a], ParallelepipedTable[a].faces)

NextPair == \E o \in Slots, dst \in Slots \cup {Dropped}, v \in MoveInputs : MoveCall(o, dst, v)

SpecPair == InitPair /\ [][NextPair]_vars

\* The step of __init__ and of move at which _euler_check has returned False,
\* for every three set sizes up to MaxCount.
InitEulerFails(np, ns, nf) ==
    /\ np - ns + nf # 2
    /\ UNCHANGED <<objs, hist>>
    /\ last' = [NoLast EXCEPT !.op = "new", !.err = "euler", !.counts = <<np, ns, nf>>,
                              !.detail = InitFailureDetail(np, ns, nf)]

MoveEulerFails(np, ns, nf) ==
    /\ np - ns + nf # 2
    /\ UNCHANGED <<objs, hist>>
    /\ last' = [NoLast EXCEPT !.op = "move", !.err = "euler", !.counts = <<np, ns, nf>>,
                              !.detail = MoveFailureDetail(np, ns, nf)]

NextEuler ==
    \/ \E np \in 0..MaxCount, ns \in 0..MaxCount, nf \in 0..MaxCount :
          InitEulerFails(np, ns, nf)
    \/ \E np \in 0..MaxCount, ns \in 0..MaxCount, nf \in 0..MaxCount :
          MoveEulerFails(np, ns, nf)

SpecEuler == Init /\ [][NextEuler]_vars

\* ------------------------------------------------------------- claims
Alive == {o \in Slots : objs[o].alive}
Translated(p, v) == VAdd(p, v)

\* C1: every polyhedron a handle holds, left there by the constructor, the
\* factory or a move (the moved instance and the returned one), satisfies
\* |point_set| - |segment_set| + |convex_polygens| = 2.
EulerInvariant ==
    \A o \in Alive :
        Cardinality(objs[o].point_set) - Cardinality(objs[o].segment_set)
            + Len(objs[o].convex_polygens) = 2
\* A polyhedron that was moved twice, the last call having succeeded.
EulerWitness ==
    /\ last.op = "move" /\ last.err = "none"
    /\ objs[1].alive /\ hist[1].hops >= 2

\* C2: for every stored face of every polyhedron held,
\* Vector(center_point, f.plane.p) * f.plane.n >= -eps.
OrientationInvariant ==
    \A o \in Alive :
        \A i \in DOMAIN objs[o].convex_polygens :
            CenterDotN(objs[o].center_point, objs[o].convex_polygens[i]) * EpsInv
                >= -objs[o].center_point.n
\* A freshly built polyhedron one of whose faces was given wound inward and is
\* stored reversed.
OrientationWitness ==
    /\ objs[1].alive /\ hist[1].hops = 0
    /\ \E i \in DOMAIN objs[1].convex_polygens :
          /\ objs[1].convex_polygens[i] # hist[1].origin[i]
          /\ CenterDotN(objs[1].center_point, objs[1].convex_polygens[i]) > 0

\* C3 as stated: a call of move leaves the polyhedron it was called on exactly
\* as it was.
MoveLeavesSelfUnchanged ==
    [][(last'.op = "move" /\ last'.dst # last'.slot)
          => objs'[last'.slot] = objs[last'.slot]]_vars

IsTranslationOf(b, a, v) ==
    /\ b.alive
    /\ b.convex_polygens =
          [i \in DOMAIN a.convex_polygens |->
              [j \in DOMAIN a.convex_polygens[i] |-> Translated(a.convex_polygens[i][j], v)]]
    /\ b.point_set = {Translated(p, v) : p \in a.point_set}
    /\ b.segment_set = {{Translated(p, v) : p \in sg} : sg \in a.segment_set}
    /\ b.center_point = [s |-> VAdd(a.center_point.s, VScale(a.center_point.n, v)),
                         n |-> a.center_point.n]
    /\ b.pyramid_set =
          {Pyramid(b.convex_polygens[i], b.center_point) : i \in DOMAIN b.convex_polygens}

\* C3 as amended: a successful move(v) rewrites the polyhedron it is called on
\* in place: its faces, vertex set, edge set and centroid become those before
\* the call translated by v, its pyramids are rebuilt on the translated faces,
\* and the polyhedron returned is in that same state.
MoveTranslatesSelf ==
    [][(last'.op = "move" /\ last'.err = "none")
          => \A t \in {last'.slot, last'.dst} \ {Dropped} :
                IsTranslationOf(objs'[t], objs[last'.slot], last'.v)]_vars
\* A successful move whose returned polyhedron is kept beside the moved one.
MoveWitness ==
    /\ last.op = "move" /\ last.err = "none" /\ last.v # ZeroVec
    /\ last.dst \notin {last.slot, Dropped}
    /\ objs[last.slot].alive /\ objs[last.dst] = objs[last.slot]

\* C4: a zero-length vector in any of the three positions makes the factory
\* end with the zero-length error, no face built, no polyhedron bound.
ZeroVectorRejected ==
    (last.op = "parallelepiped" /\ \E i \in 1..3 : last.args[i] = ZeroVec)
        => (last.err = "zero_length" /\ last.built = 0 /\ last.slot = 0)

\* C5: when the closure check fails, in __init__ and in move, the detail
\* labels |point_set| as V, |segment_set| as E and |convex_polygens| as F.
EulerDetailLabelled ==
    last.err = "euler"
        => last.detail = [V |-> last.counts[1], E |-> last.counts[2], F |-> last.counts[3]]

\* C6: every polyhedron the constructor or the factory accepted has
\* volume() > 0.
VolumePositive == \A o \in Alive : Volume6N(objs[o]) > 0

\* C7: q in P is true iff for every stored face f
\* Vector(f.center_point, q) * f.plane.n <= eps.
ContainsIsHalfSpaceTest ==
    last.op = "contains"
        => (last.result <=>
               \A i \in DOMAIN objs[last.slot].convex_polygens :
                   FaceDotNum(objs[last.slot].convex_polygens[i], last.q) * EpsInv
                       <= FaceDotDen(objs[last.slot].convex_polygens[i], last.q))
\* A point found contained that lies exactly on the plane of a face.
ContainsWitness ==
    /\ last.op = "contains" /\ last.result
    /\ \E i \in DOMAIN objs[last.slot].convex_polygens :
          /\ FaceDotNum(objs[last.slot].convex_polygens[i], last.q) = 0
          /\ CenterDotN(objs[last.slot].center_point, objs[last.slot].convex_polygens[i]) > 0

\* C8: the centroid of every polyhedron held is found contained in it.
CentroidContained ==
    (last.op = "contains" /\ last.q = objs[last.slot].center_point) => last.result
\* The centroid asked of a moved polyhedron with a face it does not lie on.
CentroidWitness ==
    /\ last.op = "contains" /\ last.q = objs[last.slot].center_point /\ last.result
    /\ hist[last.slot].hops >= 1
    /\ \E i \in DOMAIN objs[last.slot].convex_polygens :
          FaceDotNum(objs[last.slot].convex_polygens[i], last.q) < 0

PyramidsFollowFaces ==
    \A o \in Alive :
        /\ objs[o].pyramid_set =
              {Pyramid(objs[o].convex_polygens[i], objs[o].center_point) :
                  i \in DOMAIN objs[o].convex_polygens}
        /\ Cardinality(objs[o].pyramid_set) = Len(objs[o].convex_polygens)

====
